---- MODULE Spec2Model ----
(***************************************************************************)
(* Watch loop of consul-kv-watcher (src/watcher.go): the goroutine started *)
(* by WatchKey / WatchTree, the debounce timers it arms with               *)
(* time.AfterFunc, the unbuffered output channel and its single consumer.  *)
(* WatchKey and WatchTree run the same loop over kv.Get / kv.List; a       *)
(* snapshot is identified by the index (meta.LastIndex) it was fetched at. *)
(***************************************************************************)
EXTENDS Integers, Sequences, FiniteSets, TLC

\* ---------------------------------------------------------------- bounds
MaxTime == 6
MaxIndex == 3
MaxTimers == 2
MaxRecv == 3
\* how far a sustained stream of changes is followed in the timed runs
BurstMaxTime == 13
\* how many watches are started from one Watcher
MaxSessions == 2

\* ------------------------------------------------------ program constants
\* One clock tick stands for 250ms. The library's MaxElapsedTime (15 min,
\* after which NextBackOff returns Stop) lies beyond every MaxTime used here
\* and is not modelled.
\* debounceTime and retryTime passed to New, in clock ticks
DebounceTime == 2
RetryTime == 1
\* currentInterval left by backoff.NewExponentialBackOff() (its Reset ran
\* with the library's default InitialInterval, before New overwrote it)
DefaultInitialInterval == 2
\* the library's default MaxInterval, in clock ticks
BackoffMaxInterval == 240

\* time.Time{}: the zero time of debounceStart
ZeroTime == -1
\* the main loop's identity among the senders blocked on out
MainSender == 0

TimerIds == 1..MaxTimers
\* the watches started from one Watcher, and none of them
Sessions == 1..MaxSessions
NoSession == 0
NoTimer == [st |-> "none", idx |-> 0, deadline |-> 0]

VARIABLES
    now,            \* wall clock, in ticks
    storeIdx,       \* the store's current index for the watched target
    canceled,       \* ctx.Done() is closed
    pc,             \* position of the loop goroutine
    waitIndex,      \* opts.WaitIndex
    res,            \* meta.LastIndex (and the snapshot) of the last fetch
    err,            \* err of the last fetch, "none" once it was handled
    debounceStart,  \* debounceStart, ZeroTime for time.Time{}
    debounceTimer,  \* debounceTimer: 0 for nil, else the timer it points to
    timers,         \* the AfterFunc timers and their callback goroutines
    sendq,          \* goroutines blocked in `out <- snapshot`, in arrival order
    nClose,         \* number of close(out) executed
    panicked,       \* a goroutine panicked (send on closed channel)
    received,       \* snapshots the consumer received, in order
    boCur,          \* w.backoff's currentInterval
    wake,           \* when the backoff sleep's time.After fires
    \* what an observer of the timed runs records
    lastWrite,      \* when the store last changed
    lastEmit,       \* when the consumer last received
    sustained,      \* so far a change arrived less than DebounceTime after the previous
    maxGap,         \* the longest interval between two consecutive changes
    inBurst,        \* the changes since the stream was last quiet form one burst
    burstStart,     \* when the first change of that burst arrived
    burstEmits,     \* snapshots received since then
    burstLen,       \* changes of that burst
    pendingAtCancel, \* ctx was cancelled while the loop slept in backoff or a
                     \* debounce timer was armed
    sendingAtCancel, \* ctx was cancelled while the loop was blocked sending
    \* several watches of one Watcher
    sessPc,         \* position of each watch's loop goroutine
    lastOp          \* the last call on w.backoff: who made it and the delay
                    \* NextBackOff returned (0 for Reset)

loopVars == <<pc, waitIndex, res, err, debounceTimer, boCur, wake>>
chanVars == <<sendq, nClose, panicked, received>>
envVars == <<now, storeIdx, canceled>>
timedVars == <<lastWrite, lastEmit, sustained, maxGap, inBurst, burstStart,
               burstEmits, burstLen>>
watcherVars == <<sessPc, lastOp>>
obsVars == <<timedVars, pendingAtCancel, sendingAtCancel, watcherVars>>
vars == <<now, storeIdx, canceled, pc, waitIndex, res, err, debounceStart,
          debounceTimer, timers, sendq, nClose, panicked, received, boCur, wake,
          obsVars>>

Max(a, b) == IF a >= b THEN a ELSE b

Terminal == {"cancelled", "failed"}

Init ==
    /\ now = 0
    /\ storeIdx = 1
    /\ canceled = FALSE
    /\ pc = "top"
    /\ waitIndex = 0
    /\ res = 0
    /\ err = "none"
    /\ debounceStart = ZeroTime
    /\ debounceTimer = 0
    /\ timers = [t \in TimerIds |-> NoTimer]
    /\ sendq = <<>>
    /\ nClose = 0
    /\ panicked = FALSE
    /\ received = <<>>
    /\ boCur = DefaultInitialInterval
    /\ wake = 0
    /\ lastWrite = 0
    /\ lastEmit = 0
    /\ sustained = TRUE
    /\ maxGap = 0
    /\ inBurst = FALSE
    /\ burstStart = 0
    /\ burstEmits = 0
    /\ burstLen = 0
    /\ pendingAtCancel = FALSE
    /\ sendingAtCancel = FALSE
    /\ sessPc = [s \in Sessions |-> "fetch"]
    /\ lastOp = [by |-> NoSession, d |-> 0]

\* ------------------------------------------------------------- backoff
\* ExponentialBackOff.NextBackOff: a value drawn from
\* [cur - 0.5*cur, cur + 0.5*cur] (RandomizationFactor 0.5)
Jitter(cur) == ((cur + 1) \div 2)..((3 * cur) \div 2)

\* ExponentialBackOff.incrementCurrentInterval: Multiplier 1.5, capped
IncrementCurrentInterval(cur) ==
    IF 3 * cur >= 2 * BackoffMaxInterval
    THEN BackoffMaxInterval
    ELSE (3 * cur + 1) \div 2

\* ------------------------------------------------------------- channel
\* the snapshot a blocked sender is handing over
Carried(s) == IF s = MainSender THEN res ELSE timers[s].idx

\* faulty variant: the goroutine returns without closing out
CloseOutForgotten == nClose' = nClose /\ panicked' = panicked

\* `defer close(out)`: runs once, when the loop goroutine returns; the
\* senders still blocked on out panic
CloseOut ==
    /\ nClose' = nClose + 1
    /\ panicked' = (sendq # <<>>)

\* ------------------------------------------------------------ main loop
\* select { case <-ctx.Done(): return; default: } with ctx done
TopCancelled ==
    /\ ~panicked /\ pc = "top" /\ canceled
    /\ pc' = "cancelled"
    /\ CloseOut
    /\ UNCHANGED <<obsVars, envVars, waitIndex, res, err, debounceStart,
                   debounceTimer, timers, sendq, received, boCur, wake>>

\* the default branch: kv.Get / kv.List is issued with opts.WaitIndex
TopFetch ==
    /\ ~panicked /\ pc = "top" /\ ~canceled
    /\ pc' = "fetch"
    /\ UNCHANGED <<obsVars, envVars, waitIndex, res, err, debounceStart,
                   debounceTimer, timers, chanVars, boCur, wake>>

\* kvPair, meta, err := kv.Get(...): the call returns the store's current
\* index, or an error that consul.IsRetryableError classifies
FetchReturn ==
    /\ ~panicked /\ pc = "fetch"
    /\ \E e \in {"nil", "retryable", "fatal"} :
          /\ err' = e
          /\ res' = IF e = "nil" THEN storeIdx ELSE 0
    /\ pc' = "ret"
    /\ UNCHANGED <<obsVars, envVars, waitIndex, debounceStart, debounceTimer,
                   timers, chanVars, boCur, wake>>

\* faulty variant: the loop retries at once, keeping its wait index
FetchRetryableNoSleep ==
    /\ ~panicked /\ pc = "ret" /\ err = "retryable"
    /\ pc' = "top"
    /\ err' = "none"
    /\ UNCHANGED <<obsVars, envVars, waitIndex, res, debounceStart, debounceTimer,
                   timers, chanVars, boCur, wake>>

\* err != nil, consul.IsRetryableError(err): WaitIndex = 0, then the select
\* on ctx.Done() and time.After(w.backoff.NextBackOff())
FetchRetryable ==
    /\ ~panicked /\ pc = "ret" /\ err = "retryable"
    /\ waitIndex' = 0
    /\ \E d \in Jitter(boCur) : wake' = now + d
    /\ boCur' = IncrementCurrentInterval(boCur)
    /\ pc' = "backoff"
    /\ err' = "none"
    /\ UNCHANGED <<obsVars, envVars, res, debounceStart, debounceTimer, timers,
                   chanVars>>

\* faulty variant: every error is retried
FetchFatalRetried ==
    /\ ~panicked /\ pc = "ret" /\ err = "fatal"
    /\ waitIndex' = 0
    /\ wake' = now + RetryTime
    /\ pc' = "backoff"
    /\ err' = "none"
    /\ UNCHANGED <<obsVars, envVars, res, debounceStart, debounceTimer, timers,
                   chanVars, boCur>>

\* err != nil, not retryable: return
FetchFatal ==
    /\ ~panicked /\ pc = "ret" /\ err = "fatal"
    /\ pc' = "failed"
    /\ err' = "none"
    /\ CloseOut
    /\ UNCHANGED <<obsVars, envVars, waitIndex, res, debounceStart, debounceTimer,
                   timers, sendq, received, boCur, wake>>

\* err == nil: w.backoff.Reset()
FetchOk ==
    /\ ~panicked /\ pc = "ret" /\ err = "nil"
    /\ boCur' = RetryTime
    /\ pc' = "gate"
    /\ err' = "none"
    /\ UNCHANGED <<obsVars, envVars, waitIndex, res, debounceStart, debounceTimer,
                   timers, chanVars, wake>>

\* case <-ctx.Done(): return, in the backoff select
BackoffCancelled ==
    /\ ~panicked /\ pc = "backoff" /\ canceled
    /\ pc' = "cancelled"
    /\ CloseOut
    /\ UNCHANGED <<obsVars, envVars, waitIndex, res, err, debounceStart,
                   debounceTimer, timers, sendq, received, boCur, wake>>

\* case <-time.After(...): continue
BackoffWake ==
    /\ ~panicked /\ pc = "backoff" /\ now >= wake
    /\ pc' = "top"
    /\ wake' = 0
    /\ UNCHANGED <<obsVars, envVars, waitIndex, res, err, debounceStart,
                   debounceTimer, timers, chanVars, boCur>>

\* ------------------------------------------------------------ debounce
\* faulty variant: the superseded timer is left running
StopTimerForgotten(ts) == ts

\* debounceTimer.Stop(): an armed timer is removed; one whose callback has
\* already been started is not affected
StopTimer(ts) ==
    IF debounceTimer # 0 /\ ts[debounceTimer].st = "armed"
    THEN [ts EXCEPT ![debounceTimer] = NoTimer]
    ELSE ts

FreeTimers(ts) == {t \in TimerIds : ts[t].st = "none"}

\* faulty variant: the loop sends without stopping the pending timer
EmitNowTimerKept ==
    /\ sendq' = Append(sendq, MainSender)
    /\ pc' = "send"
    /\ UNCHANGED <<waitIndex, debounceStart, debounceTimer, timers>>

\* `out <- snapshot` by the loop: it blocks until the consumer receives
EmitNow ==
    /\ sendq' = Append(sendq, MainSender)
    /\ pc' = "send"
    /\ timers' = StopTimer(timers)
    /\ UNCHANGED <<waitIndex, debounceStart, debounceTimer>>

\* the else branch: open the window if none is open, arm a new timer that
\* carries this snapshot, then opts.WaitIndex = meta.LastIndex
Schedule ==
    /\ FreeTimers(StopTimer(timers)) # {}
    /\ LET ts == StopTimer(timers)
           t == CHOOSE x \in FreeTimers(ts) : \A y \in FreeTimers(ts) : x <= y
       IN /\ timers' = [ts EXCEPT ![t] = [st |-> "armed", idx |-> res,
                                          deadline |-> now + DebounceTime]]
          /\ debounceTimer' = t
    /\ debounceStart' = IF debounceStart = ZeroTime THEN now ELSE debounceStart
    /\ waitIndex' = res
    /\ pc' = "top"
    /\ UNCHANGED sendq

\* faulty variant: the first snapshot is debounced like any other
FreshStartIgnored == FALSE

\* "don't debounce and wait if we start fresh without wait index"
FreshStart == waitIndex <= 0

\* faulty variant: every successful fetch is treated as a change
IndexChangedAlways == TRUE

\* opts.WaitIndex != meta.LastIndex
IndexChanged == waitIndex # res

\* if opts.WaitIndex != meta.LastIndex { Stop the timer; evaluate
\* opts.WaitIndex <= 0 || !debounceStart.IsZero() && ... }
Gate ==
    /\ ~panicked /\ pc = "gate"
    /\ IF ~IndexChanged
       THEN /\ pc' = "top"
            /\ UNCHANGED <<waitIndex, debounceStart, debounceTimer, timers, sendq>>
       ELSE IF FreshStart
       THEN EmitNow
       ELSE IF debounceStart = ZeroTime
       THEN Schedule
       ELSE /\ pc' = "since"
            /\ timers' = StopTimer(timers)
            /\ UNCHANGED <<waitIndex, debounceStart, debounceTimer, sendq>>
    /\ UNCHANGED <<obsVars, envVars, res, err, nClose, panicked, received, boCur, wake>>

\* time.Since(debounceStart): the second read of debounceStart; of the zero
\* time it is the largest Duration
Elapsed == IF debounceStart = ZeroTime THEN 2 * DebounceTime + 1 ELSE now - debounceStart

\* faulty variant: no safety valve
ValveNever(e) == FALSE

\* the safety valve: time.Since(debounceStart) > 2*w.debounceTime
Valve(e) == e > 2 * DebounceTime

\* the rest of the condition, after !debounceStart.IsZero() was true
GateSince ==
    /\ ~panicked /\ pc = "since"
    /\ IF Valve(Elapsed) THEN EmitNow ELSE Schedule
    /\ UNCHANGED <<obsVars, envVars, res, err, nClose, panicked, received, boCur, wake>>

\* faulty variant: the wait index is not advanced after the loop's own send
AfterSendIndexKept ==
    /\ ~panicked /\ pc = "sent"
    /\ debounceStart' = ZeroTime
    /\ pc' = "top"
    /\ UNCHANGED <<obsVars, envVars, waitIndex, res, err, debounceTimer, timers,
                   chanVars, boCur, wake>>

\* after the loop's send was received: debounceStart = time.Time{} and
\* opts.WaitIndex = meta.LastIndex
AfterSend ==
    /\ ~panicked /\ pc = "sent"
    /\ debounceStart' = ZeroTime
    /\ waitIndex' = res
    /\ pc' = "top"
    /\ UNCHANGED <<obsVars, envVars, res, err, debounceTimer, timers, chanVars, boCur, wake>>

\* ------------------------------------------------- timers and callbacks
\* the runtime starts the AfterFunc callback in its own goroutine
TimerFire(t) ==
    /\ ~panicked /\ timers[t].st = "armed" /\ timers[t].deadline <= now
    /\ timers' = [timers EXCEPT ![t].st = "fired"]
    /\ UNCHANGED <<obsVars, envVars, loopVars, debounceStart, chanVars>>

\* the callback reaches `out <- snapshot`: it blocks, or panics if out is
\* closed
CallbackSend(t) ==
    /\ ~panicked /\ timers[t].st = "fired"
    /\ IF nClose > 0
       THEN /\ panicked' = TRUE
            /\ UNCHANGED <<timers, sendq>>
       ELSE /\ timers' = [timers EXCEPT ![t].st = "sending"]
            /\ sendq' = Append(sendq, t)
            /\ UNCHANGED panicked
    /\ UNCHANGED <<obsVars, envVars, loopVars, debounceStart, nClose, received>>

\* the callback's debounceStart = time.Time{} after its send was received
CallbackClear(t) ==
    /\ ~panicked /\ timers[t].st = "sent"
    /\ debounceStart' = ZeroTime
    /\ timers' = [timers EXCEPT ![t] = NoTimer]
    /\ UNCHANGED <<obsVars, envVars, loopVars, chanVars>>

\* ------------------------------------------------------------- consumer
\* a receive on out: the longest-blocked sender hands its snapshot over
Deliver ==
    /\ ~panicked /\ nClose = 0 /\ sendq # <<>>
    /\ received' = Append(received, Carried(Head(sendq)))
    /\ sendq' = Tail(sendq)
    /\ IF Head(sendq) = MainSender
       THEN pc' = "sent" /\ UNCHANGED timers
       ELSE timers' = [timers EXCEPT ![Head(sendq)].st = "sent"] /\ UNCHANGED pc
    /\ UNCHANGED <<envVars, waitIndex, res, err, debounceStart, debounceTimer,
                   nClose, panicked, boCur, wake>>

\* the consumer receives whenever it likes
Receive ==
    /\ Len(received) < MaxRecv
    /\ Deliver
    /\ UNCHANGED obsVars

\* ---------------------------------------------------------- environment
\* a write to the watched key or prefix raises the store's index
StoreWrite ==
    /\ ~panicked
    /\ storeIdx' = storeIdx + 1
    /\ UNCHANGED <<now, canceled, loopVars, debounceStart, timers, chanVars>>

Write ==
    /\ storeIdx < MaxIndex
    /\ StoreWrite
    /\ UNCHANGED obsVars

\* the caller cancels ctx
Cancel ==
    /\ ~panicked /\ ~canceled
    /\ canceled' = TRUE
    /\ pendingAtCancel' = (pc = "backoff" \/ \E t \in TimerIds : timers[t].st = "armed")
    /\ sendingAtCancel' = (pc = "send")
    /\ UNCHANGED <<timedVars, watcherVars, now, storeIdx, loopVars, debounceStart,
                   timers, chanVars>>

\* something of the session can still read the clock
ClockRead == pc \notin Terminal \/ \E t \in TimerIds : timers[t].st = "armed"

\* time passes; an armed timer fires when its deadline is reached
ClockTick ==
    /\ ~panicked /\ ClockRead
    /\ \A t \in TimerIds : timers[t].st = "armed" => timers[t].deadline > now
    /\ now' = now + 1
    /\ UNCHANGED <<storeIdx, canceled, loopVars, debounceStart, timers, chanVars>>

Tick ==
    /\ now < MaxTime
    /\ ClockTick
    /\ UNCHANGED obsVars

Next ==
    \/ TopCancelled \/ TopFetch
    \/ FetchReturn \/ FetchRetryable \/ FetchFatal \/ FetchOk
    \/ BackoffCancelled \/ BackoffWake
    \/ Gate \/ GateSince \/ AfterSend
    \/ \E t \in TimerIds : TimerFire(t) \/ CallbackSend(t) \/ CallbackClear(t)
    \/ Receive \/ Write \/ Cancel \/ Tick

Spec == Init /\ [][Next]_vars

\* The goroutines are scheduled, a fetch returns (its wait time is bounded)
\* and time passes; the consumer and the caller promise nothing.
LoopStep ==
    \/ TopCancelled \/ TopFetch
    \/ FetchRetryable \/ FetchFatal \/ FetchOk
    \/ BackoffCancelled \/ BackoffWake
    \/ Gate \/ GateSince \/ AfterSend

CallbackStep == \E t \in TimerIds : TimerFire(t) \/ CallbackSend(t) \/ CallbackClear(t)

FairSpec ==
    /\ Spec
    /\ WF_vars(LoopStep) /\ WF_vars(FetchReturn)
    /\ WF_vars(CallbackStep) /\ WF_vars(Tick)

\* ------------------------------------------------------------ timed runs
\* The session with no fetch error and no cancellation, a consumer that is
\* always ready and goroutines that run as soon as they can: time passes
\* only when the loop waits in its long poll with nothing new to return and
\* no callback or send is outstanding.

\* the fetch returns without error
FetchReturnOk ==
    /\ FetchReturn
    /\ err' = "nil"

\* nothing of an earlier change is pending anywhere
Quiet ==
    /\ debounceStart = ZeroTime
    /\ \A t \in TimerIds : timers[t].st = "none"
    /\ sendq = <<>>
    /\ pc = "fetch" /\ waitIndex = storeIdx

\* changes arrive at distinct ticks of the clock
PromptWrite ==
    /\ lastWrite < now
    /\ StoreWrite
    /\ lastWrite' = now
    /\ maxGap' = Max(maxGap, now - lastWrite)
    /\ IF Quiet
       THEN inBurst' = TRUE /\ burstStart' = now /\ burstEmits' = 0 /\ burstLen' = 1
       ELSE IF inBurst /\ now - lastWrite < DebounceTime
                       /\ now - burstStart <= 2 * DebounceTime
       THEN burstLen' = burstLen + 1 /\ UNCHANGED <<inBurst, burstStart, burstEmits>>
       ELSE inBurst' = FALSE /\ burstStart' = 0 /\ burstEmits' = 0 /\ burstLen' = 0
    /\ UNCHANGED <<lastEmit, sustained, pendingAtCancel, sendingAtCancel, watcherVars>>

PromptReceive ==
    /\ Deliver
    /\ lastEmit' = now
    /\ burstEmits' = IF inBurst THEN burstEmits + 1 ELSE burstEmits
    /\ UNCHANGED <<lastWrite, sustained, maxGap, inBurst, burstStart, burstLen,
                   pendingAtCancel, sendingAtCancel, watcherVars>>

\* a stream that is no longer sustained is followed up to MaxTime only
PromptTick ==
    /\ now < (IF sustained THEN BurstMaxTime ELSE MaxTime)
    /\ pc = "fetch" /\ waitIndex = storeIdx
    /\ sendq = <<>>
    /\ \A t \in TimerIds : timers[t].st \in {"none", "armed"}
    /\ ClockTick
    /\ sustained' = (sustained /\ now + 1 - lastWrite < DebounceTime)
    /\ UNCHANGED <<lastWrite, lastEmit, maxGap, inBurst, burstStart, burstEmits,
                   burstLen, pendingAtCancel, sendingAtCancel, watcherVars>>

PromptNext ==
    \/ TopFetch \/ FetchReturnOk \/ FetchOk
    \/ Gate \/ GateSince \/ AfterSend
    \/ \E t \in TimerIds : TimerFire(t) \/ CallbackSend(t) \/ CallbackClear(t)
    \/ PromptReceive \/ PromptWrite \/ PromptTick

PromptSpec == Init /\ [][PromptNext]_vars

\* ------------------------------------------- several watches, one Watcher
\* Every WatchKey / WatchTree call on a Watcher starts a loop goroutine of
\* its own, and all of them call w.backoff, the one ExponentialBackOff that
\* New created. Only the calls on w.backoff are followed here: each loop is
\* reduced to its fetch, its error handling and its backoff sleep.

\* everything that belongs to the single watch followed above
watchVars == <<now, storeIdx, canceled, pc, waitIndex, res, err, debounceStart,
               debounceTimer, timers, sendq, nClose, panicked, received, wake,
               timedVars, pendingAtCancel, sendingAtCancel>>

\* the delays the next w.backoff.NextBackOff() can return to watch s
NextRetryDelay(s) == Jitter(boCur)

\* watch s: err == nil, w.backoff.Reset(); the loop goes on to fetch again
SessionFetchOk(s) ==
    /\ sessPc[s] = "fetch"
    /\ boCur' = RetryTime
    /\ lastOp' = [by |-> s, d |-> 0]
    /\ UNCHANGED <<sessPc, watchVars>>

\* watch s: a retryable error, time.After(w.backoff.NextBackOff())
SessionFetchRetryable(s) ==
    /\ sessPc[s] = "fetch"
    /\ \E d \in NextRetryDelay(s) : lastOp' = [by |-> s, d |-> d]
    /\ boCur' = IncrementCurrentInterval(boCur)
    /\ sessPc' = [sessPc EXCEPT ![s] = "backoff"]
    /\ UNCHANGED watchVars

\* watch s: any other error, return
SessionFetchFatal(s) ==
    /\ sessPc[s] = "fetch"
    /\ sessPc' = [sessPc EXCEPT ![s] = "failed"]
    /\ UNCHANGED <<boCur, lastOp, watchVars>>

\* watch s: case <-time.After(...): continue
SessionBackoffWake(s) ==
    /\ sessPc[s] = "backoff"
    /\ sessPc' = [sessPc EXCEPT ![s] = "fetch"]
    /\ UNCHANGED <<boCur, lastOp, watchVars>>

WatcherNext ==
    \E s \in Sessions :
        \/ SessionFetchOk(s) \/ SessionFetchRetryable(s)
        \/ SessionFetchFatal(s) \/ SessionBackoffWake(s)

WatcherSpec == Init /\ [][WatcherNext]_vars

\* ---------------------------------------------------------------- claims

\* C1: index monotonicity. The consumer never receives a snapshot with a
\* smaller index after one with a greater index.
C1_IndexMonotonicity ==
    \A i, j \in 1..Len(received) : i < j => received[i] <= received[j]

\* C2: a snapshot is emitted only when the data changed. The consumer never
\* receives a snapshot whose index is equal to or older than the index of
\* one it already received; a retryable failure followed by a fetch of the
\* same index produces no new emission.
C2_EmitOnlyOnChange ==
    \A i, j \in 1..Len(received) : i < j => received[i] < received[j]

\* C3: once the loop has observed the cancellation (or a fatal error) it
\* stays terminated and issues no further fetch, and out is closed exactly
\* once on every termination path: never twice, and closed whenever the
\* loop has terminated.
C3_ClosedExactlyOnce ==
    [][ /\ (pc \in Terminal => pc' = pc)
        /\ nClose' <= 1
        /\ (pc' \in Terminal <=> nClose' = 1) ]_vars

C3_Witness == pc = "cancelled" /\ nClose = 1 /\ received # <<>>

\* C4: when ctx is cancelled while the loop sleeps in backoff or while a
\* debounce timer is armed, no snapshot is delivered afterwards and the
\* pending emission is abandoned: its callback is never started.
C4_CancelAbandonsPending ==
    [][ pendingAtCancel =>
          /\ received' = received
          /\ \A t \in TimerIds :
                timers[t].st = "armed" => timers'[t].st # "fired" ]_vars

\* C5: cancellation wins over the emission. When ctx is cancelled while the
\* loop is blocked handing a snapshot to out, then the consumer receives it
\* or, if it never does, the loop still terminates and out is closed.
C5_CancelWinsOverSend ==
    (sendingAtCancel /\ pc = "send") ~> (pc # "send" \/ nClose = 1)

\* C6: a non-retryable fetch error makes the loop return at once and close
\* out, with no further fetch and no backoff sleep; once it has, the loop
\* stays terminated and the consumer receives nothing more.
C6_FatalTermination ==
    [][ /\ (pc = "ret" /\ err = "fatal" /\ pc' # pc) =>
              (pc' = "failed" /\ nClose' = 1)
        /\ pc = "failed" =>
              (pc' = "failed" /\ nClose' = 1 /\ received' = received) ]_vars

C6_Witness ==
    /\ pc = "failed" /\ nClose = 1
    /\ \E t \in TimerIds : timers[t].st = "armed"

\* C7: a retryable fetch error neither closes out nor emits: the loop sets
\* the wait index to zero and sleeps; it leaves the sleep only when the
\* delay has passed (then it fetches again, still with wait index zero,
\* unless ctx is cancelled) or because ctx is cancelled.
C7_RetryableAbsorbed ==
    [][ /\ (pc = "ret" /\ err = "retryable" /\ pc' # pc) =>
              /\ pc' = "backoff" /\ waitIndex' = 0
              /\ nClose' = 0 /\ received' = received /\ sendq' = sendq
        /\ (pc = "backoff" /\ pc' # pc) =>
              \/ pc' = "top" /\ now >= wake /\ waitIndex' = 0 /\ nClose' = 0
              \/ pc' = "cancelled" /\ canceled
        /\ (pc = "top" /\ pc' # pc) =>
              \/ pc' = "fetch" /\ ~canceled /\ waitIndex' = waitIndex /\ nClose' = 0
              \/ pc' = "cancelled" /\ canceled ]_vars

\* after a success, two consecutive retryable failures, fetching again
C7_Witness ==
    /\ pc = "fetch" /\ waitIndex = 0 /\ nClose = 0 /\ received # <<>>
    /\ boCur = IncrementCurrentInterval(IncrementCurrentInterval(RetryTime))

\* C8: in a fresh session the first successful fetch that returns data is
\* handed to out by the loop itself: no window is opened, no timer armed.
C8_FirstFetchImmediate ==
    [][ (pc = "gate" /\ received = <<>> /\ waitIndex = 0 /\ res # 0 /\ pc' # pc) =>
          /\ pc' = "send" /\ sendq' = <<MainSender>>
          /\ debounceStart' = ZeroTime /\ debounceTimer' = 0
          /\ \A t \in TimerIds : timers'[t].st = "none" ]_vars

C8_Witness == pc = "send" /\ received = <<>> /\ sendq = <<MainSender>> /\ res # 0

\* C9: coalescing. For a burst of changes that starts when the stream is
\* quiet, each change less than DebounceTime after the previous one and
\* all within twice DebounceTime of the first, the consumer receives
\* exactly one snapshot: the one of the last change, DebounceTime after it.
C9_Coalescing ==
    inBurst =>
        /\ burstEmits <= 1
        /\ burstEmits = 1 =>
              /\ received[Len(received)] = storeIdx
              /\ lastEmit = lastWrite + DebounceTime
        /\ now > lastWrite + DebounceTime => burstEmits = 1

\* a burst of three changes was coalesced into one emission
C9_Witness == inBurst /\ burstLen >= 3 /\ burstEmits = 1

\* C10: starvation valve. Under a sustained stream of changes, each less
\* than DebounceTime after the previous one, and a consumer that is always
\* ready, at least one emission occurs within every window of length
\* 2 * DebounceTime.
C10_EmissionEvery2D ==
    sustained => now - lastEmit <= 2 * DebounceTime

\* C10 as amended: the window is 2 * DebounceTime plus twice the interval
\* between changes (the change that trips the valve arrives up to one
\* interval after 2 * DebounceTime, and the window reopens only with the
\* change after that).
C10_EmissionEvery2DPlusTwoGaps ==
    sustained =>
        now - lastEmit <= 2 * DebounceTime + 2 * Max(maxGap, now - lastWrite)

\* a sustained stream whose last emission is as old as the amended bound
C10_Witness ==
    /\ sustained /\ Len(received) >= 2
    /\ now - lastEmit = 2 * DebounceTime + 2 * maxGap

\* C11: backoff growth and reset. Of two consecutive retryable failures of
\* one watch (no other call on the backoff in between) the second delay is
\* greater than the first, unless both equal the cap; the delay of a
\* failure that follows the watch's own successful fetch equals the
\* configured initial interval.
C11_BackoffGrowthAndReset ==
    [][ \A s \in Sessions :
          (sessPc[s] = "fetch" /\ sessPc'[s] = "backoff" /\ lastOp.by = s) =>
              IF lastOp.d = 0
              THEN lastOp'.d = RetryTime
              ELSE \/ lastOp'.d > lastOp.d
                   \/ lastOp'.d = BackoffMaxInterval /\ lastOp.d = BackoffMaxInterval
      ]_vars

\* C14: the backoff state is per watch. A successful fetch or a retryable
\* failure of one watch never changes the delays the next retryable failure
\* of another watch of the same Watcher can sleep.
C14_BackoffPerSession ==
    [][ \A s, o \in Sessions :
          (s # o /\ lastOp' # lastOp /\ lastOp'.by = s) =>
              NextRetryDelay(o)' = NextRetryDelay(o) ]_vars

\* C12: mutual exclusion of emitters. The loop and a started timer callback,
\* or two started callbacks, are never at the same time inside their
\* emit-and-close-window step (blocked in the send on out, or past it and
\* about to write debounceStart).
C12_EmittersExclusive ==
    LET loopIn == pc \in {"send", "sent"}
        cbIn(t) == timers[t].st \in {"sending", "sent"}
    IN /\ ~(loopIn /\ \E t \in TimerIds : cbIn(t))
       /\ \A t, u \in TimerIds : (cbIn(t) /\ cbIn(u)) => t = u

\* C13: at most one pending item. At most one goroutine of the watch is
\* blocked in a send on out.
C13_AtMostOnePending == Len(sendq) <= 1

\* C15: the wait index never regresses. opts.WaitIndex never decreases,
\* except that the handling of a retryable failure sets it to zero; and a
\* fetch issued after a successful fetch carries the index that fetch
\* returned, also while a debounce timer for it is pending.
C15_WaitIndexNeverRegresses ==
    [][ /\ waitIndex' < waitIndex =>
              (waitIndex' = 0 /\ pc = "ret" /\ err = "retryable")
        /\ (pc' = "fetch" /\ pc # "fetch" /\ res # 0) => waitIndex' = res ]_vars

\* the loop fetches with the index of a change whose timer is still armed
C15_Witness ==
    /\ pc = "fetch" /\ waitIndex = res /\ waitIndex > 1
    /\ \E t \in TimerIds : timers[t].st = "armed" /\ timers[t].idx = waitIndex

\* C16: an unchanged index is a no-op. A successful fetch only resets the
\* backoff; when the index it returned equals the wait index, the loop
\* sends nothing, leaves debounceStart, debounceTimer and the timers as
\* they are, keeps the wait index and goes on to the next fetch.
C16_UnchangedIndexNoOp ==
    [][ /\ (pc = "ret" /\ err = "nil" /\ pc' # pc) =>
              /\ pc' = "gate" /\ boCur' = RetryTime
              /\ UNCHANGED <<waitIndex, res, debounceStart, debounceTimer, timers,
                             sendq, received, nClose>>
        /\ (pc = "gate" /\ waitIndex = res /\ pc' # pc) =>
              /\ pc' = "top"
              /\ UNCHANGED <<waitIndex, res, debounceStart, debounceTimer, timers,
                             sendq, received, nClose, boCur>> ]_vars

\* a fetch returned the unchanged index while a timer is armed and a window
\* is open
C16_Witness ==
    /\ pc = "gate" /\ waitIndex = res /\ boCur = RetryTime
    /\ debounceStart # ZeroTime
    /\ \E t \in TimerIds : timers[t].st = "armed"

\* C17: window anchor stability. While a window is open and a timer is
\* armed, debounceStart does not change, except that it is cleared by the
\* emission that closes the window, which leaves no timer armed.
C17_WindowAnchorStable ==
    [][ (debounceStart # ZeroTime /\ \E t \in TimerIds : timers[t].st = "armed") =>
          \/ debounceStart' = debounceStart
          \/ /\ debounceStart' = ZeroTime
             /\ \A t \in TimerIds : timers'[t].st # "armed" ]_vars

\* C18: immediate-emit rule. When the loop handles a changed snapshot and
\* it is the first-ever fetch, or no window is open, or more than twice
\* DebounceTime has passed since the window opened, the loop sends the
\* snapshot itself and leaves no timer armed; its next step after the
\* consumer received it closes the window.
C18_ImmediateEmit ==
    [][ /\ (/\ pc \in {"gate", "since"} /\ pc' \notin {pc, "since"}
            /\ waitIndex # res
            /\ \/ received = <<>>
               \/ debounceStart = ZeroTime
               \/ now - debounceStart > 2 * DebounceTime) =>
              /\ pc' = "send" /\ sendq' = Append(sendq, MainSender)
              /\ \A t \in TimerIds : timers'[t].st # "armed"
        /\ (pc = "sent" /\ pc' # pc) => debounceStart' = ZeroTime ]_vars

\* C18 as amended: the loop sends the snapshot itself when the wait index
\* is zero (the first fetch, or the first after a retryable failure) or
\* when a window is open for more than twice DebounceTime; a change that
\* finds the wait index set and no window open is not sent: it opens the
\* window and arms a timer.
C18_ImmediateEmitFreshOrValve ==
    [][ /\ (/\ pc \in {"gate", "since"} /\ pc' \notin {pc, "since"}
            /\ waitIndex # res
            /\ \/ waitIndex <= 0
               \/ debounceStart # ZeroTime /\ now - debounceStart > 2 * DebounceTime) =>
              /\ pc' = "send" /\ sendq' = Append(sendq, MainSender)
              /\ \A t \in TimerIds : timers'[t].st # "armed"
        /\ (pc = "gate" /\ pc' # pc /\ waitIndex # res /\ waitIndex > 0
               /\ debounceStart = ZeroTime) =>
              /\ pc' = "top" /\ sendq' = sendq /\ debounceStart' = now
              /\ debounceTimer' # 0
              /\ timers'[debounceTimer'] =
                    [st |-> "armed", idx |-> res, deadline |-> now + DebounceTime]
        /\ (pc = "sent" /\ pc' # pc) => debounceStart' = ZeroTime ]_vars

\* the loop is sending because the window was open for too long
C18_Witness ==
    /\ pc = "send" /\ waitIndex > 0
    /\ debounceStart # ZeroTime /\ now - debounceStart > 2 * DebounceTime
    /\ \A t \in TimerIds : timers[t].st # "armed"

\* C19: no send on a closed stream. Neither the loop nor a timer callback
\* ever sends on out when it is closed (the send would panic).
C19_NoSendOnClosed == ~panicked

\* C20: convergence to the latest state. When nothing is pending any more
\* (no window, no timer or callback, no blocked sender, the loop long
\* polling with the store's current index) in a watch that is neither
\* cancelled nor failed, the last snapshot the consumer received is the one
\* of the most recent change.
C20_ConvergesToLatest ==
    (Quiet /\ ~canceled /\ nClose = 0 /\ received # <<>>) =>
        received[Len(received)] = storeIdx
====
